---- MODULE Spec2Model ----
(***************************************************************************)
(* gravitum.decompiler_builtins.ida: the helpers IDA's decompiler output   *)
(* calls (defs.h), over gravitum's fixed-width integers.                   *)
(*                                                                         *)
(* A fixed-width integer is a record [size, signed, bits]: size in bytes,  *)
(* bits its two's-complement pattern, least significant bit first.  Bit    *)
(* patterns are used instead of numbers because the 32- and 64-bit kinds   *)
(* do not fit the model checker's integers.                                *)
(***************************************************************************)
EXTENDS Integers, Sequences, FiniteSets, TLC

\* ------------------------------------------------------------------ bounds
\* Number of sample bit patterns drawn per kind.
NumSamples == 9
\* Largest partition index n tried by _partn (besides the far index 99).
MaxIndex == 8
\* Largest size argument tried by get_type(size, signed).
MaxSize == 9

\* `get_size() * 8`: bits per byte.
BitsPerByte == 8

\* ------------------------------------------------------- gravitum.types
Int8 == [size |-> 1, signed |-> TRUE]
Int16 == [size |-> 2, signed |-> TRUE]
Int32 == [size |-> 4, signed |-> TRUE]
Int64 == [size |-> 8, signed |-> TRUE]
UInt8 == [size |-> 1, signed |-> FALSE]
UInt16 == [size |-> 2, signed |-> FALSE]
UInt32 == [size |-> 4, signed |-> FALSE]
UInt64 == [size |-> 8, signed |-> FALSE]

\* The list get_type searches, in its order.
int_types == <<Int8, Int16, Int32, Int64, UInt8, UInt16, UInt32, UInt64>>

Kinds == {int_types[i] : i \in 1..Len(int_types)}

nbits_of(t) == t.size * BitsPerByte

\* An Integer of kind t holding the given bit pattern.
Mk(t, bits) == [size |-> t.size, signed |-> t.signed, bits |-> bits]

\* type(v)
type_of(v) == [size |-> v.size, signed |-> v.signed]

\* Top bit of v's pattern.
TopBit(v) == v.bits[Len(v.bits)]

\* The bit that extends v's value to the left: the sign bit of a signed
\* value, 0 of an unsigned one.
Fill(v) == IF v.signed THEN TopBit(v) ELSE 0

\* v's value modulo 2^w as w bits (sign-/zero-extended or truncated).
Ext(v, w) == [i \in 1..w |-> IF i <= Len(v.bits) THEN v.bits[i] ELSE Fill(v)]

\* t(v): construct kind t from an Integer, wrapping modulo 2^width.
Conv(t, v) == Mk(t, Ext(v, nbits_of(t)))

\* t(0) and t(-1): construct from the literals the source uses.
Zero(t) == Mk(t, [i \in 1..nbits_of(t) |-> 0])
MinusOne(t) == Mk(t, [i \in 1..nbits_of(t) |-> 1])

RECURSIVE AddFrom(_, _, _, _)
AddFrom(a, b, i, c) ==
    IF i > Len(a) THEN <<>>
    ELSE LET s == a[i] + b[i] + c
         IN  <<s % 2>> \o AddFrom(a, b, i + 1, s \div 2)

\* a + b + c modulo 2^Len(a), on bit patterns of equal length.
AddBits(a, b, c) == AddFrom(a, b, 1, c)

NotBits(a) == [i \in 1..Len(a) |-> 1 - a[i]]

\* x + y, x - y, x | y, x & y, ~x: the exact result re-wrapped to the kind
\* of the left operand.
Add(x, y) == Mk(type_of(x), AddBits(x.bits, Ext(y, Len(x.bits)), 0))
Sub(x, y) == Mk(type_of(x), AddBits(x.bits, NotBits(Ext(y, Len(x.bits))), 1))
Or(x, y) ==
    LET b == Ext(y, Len(x.bits))
    IN  Mk(type_of(x), [i \in 1..Len(x.bits) |-> IF x.bits[i] = 1 \/ b[i] = 1 THEN 1 ELSE 0])
And(x, y) ==
    LET b == Ext(y, Len(x.bits))
    IN  Mk(type_of(x), [i \in 1..Len(x.bits) |-> IF x.bits[i] = 1 /\ b[i] = 1 THEN 1 ELSE 0])
Not(x) == Mk(type_of(x), NotBits(x.bits))

\* x << k: high bits shifted out are discarded.
Shl(x, k) ==
    Mk(type_of(x), [i \in 1..Len(x.bits) |-> IF i > k THEN x.bits[i - k] ELSE 0])

\* x >> k: arithmetic (sign-replicating) when signed, logical when unsigned.
Shr(x, k) ==
    Mk(type_of(x),
       [i \in 1..Len(x.bits) |-> IF i + k <= Len(x.bits) THEN x.bits[i + k] ELSE Fill(x)])

RECURSIVE LtFrom(_, _, _)
LtFrom(a, b, i) ==
    IF i = 0 THEN FALSE
    ELSE IF a[i] # b[i] THEN a[i] < b[i]
    ELSE LtFrom(a, b, i - 1)

\* x < y for two Integers of the same kind.
Lt(x, y) ==
    IF x.signed /\ TopBit(x) # TopBit(y) THEN TopBit(x) = 1
    ELSE LtFrom(x.bits, y.bits, Len(x.bits))

\* One byte (a number 0..255) out of a bit pattern; k counts from 0 at the
\* least significant byte.
ByteAt(bits, k) ==
    LET b(j) == bits[k * BitsPerByte + j]
    IN  b(1) + 2 * b(2) + 4 * b(3) + 8 * b(4) + 16 * b(5) + 32 * b(6) + 64 * b(7) + 128 * b(8)

Reverse(s) == [i \in 1..Len(s) |-> s[Len(s) + 1 - i]]

\* x.to_bytes(byteorder): the value's bytes, least significant first for
\* "little", most significant first for "big".
to_bytes(x, byteorder) ==
    LET le == [k \in 1..x.size |-> ByteAt(x.bits, k - 1)]
    IN  IF byteorder = "little" THEN le ELSE Reverse(le)

\* Bit j (from 0) of a byte.
BitOfByte(b, j) == (b \div (2 ^ j)) % 2

\* t.from_bytes(data, byteorder): fails unless data is exactly t's size.
from_bytes(t, data, byteorder) ==
    IF Len(data) # t.size THEN [t |-> "raise", v |-> "SizeMismatch"]
    ELSE LET le == IF byteorder = "little" THEN data ELSE Reverse(data)
         IN  [t |-> "Integer",
              v |-> Mk(t, [i \in 1..nbits_of(t) |->
                              BitOfByte(le[((i - 1) \div BitsPerByte) + 1], (i - 1) % BitsPerByte)])]

\* --------------------------------------------------------------- inputs
\* Byte i (0 = least significant) of sample pattern k for an n-byte kind:
\* 0, 1, all ones (-1), signed max, signed min, 0x0102..0n, 200, 100,
\* 0x40 00..00, and beyond those a spread of arbitrary bytes.
SampleByte(k, i, n) ==
    CASE k = 0 -> 0
      [] k = 1 -> IF i = 0 THEN 1 ELSE 0
      [] k = 2 -> 255
      [] k = 3 -> IF i = n - 1 THEN 127 ELSE 255
      [] k = 4 -> IF i = n - 1 THEN 128 ELSE 0
      [] k = 5 -> n - i
      [] k = 6 -> IF i = 0 THEN 200 ELSE 0
      [] k = 7 -> IF i = 0 THEN 100 ELSE 0
      [] k = 8 -> IF i = n - 1 THEN 64 ELSE 0
      [] OTHER -> (k * 73 + i * 29 + 17) % 256

Sample(t, k) ==
    Mk(t, [j \in 1..nbits_of(t) |->
              BitOfByte(SampleByte(k, (j - 1) \div BitsPerByte, t.size), (j - 1) % BitsPerByte)])

\* The Integer arguments the operations are called with.
Values == {Sample(t, k) : t \in Kinds, k \in 0..(NumSamples - 1)}

\* ------------------------------------------------------ gravitum.utils
\* type_name=None
None == <<"None">>

Digits == <<"0", "1", "2", "3", "4", "5", "6", "7", "8", "9">>
DigitChars == {Digits[d] : d \in 1..Len(Digits)}
DigitValue(c) == (CHOOSE d \in 1..Len(Digits) : Digits[d] = c) - 1

\* Length of the longest run of characters of the set cs in s, from s[from].
RECURSIVE Span(_, _, _)
Span(s, from, cs) ==
    IF from <= Len(s) /\ s[from] \in cs THEN 1 + Span(s, from + 1, cs) ELSE 0

RECURSIVE ParseInt(_)
ParseInt(ds) ==
    IF ds = <<>> THEN 0
    ELSE 10 * ParseInt(SubSeq(ds, 1, Len(ds) - 1)) + DigitValue(ds[Len(ds)])

\* re.match(r"(u*)int(\d+)", type_name): the two groups, or no match.
MatchTypeName(s) ==
    LET nu == Span(s, 1, {"u"})
        hasInt == Len(s) >= nu + 3 /\ SubSeq(s, nu + 1, nu + 3) = <<"i", "n", "t">>
        nd == IF hasInt THEN Span(s, nu + 4, DigitChars) ELSE 0
    IN  IF hasInt /\ nd >= 1
        THEN [ok |-> TRUE, g1 |-> SubSeq(s, 1, nu), g2 |-> SubSeq(s, nu + 4, nu + 3 + nd)]
        ELSE [ok |-> FALSE, g1 |-> <<>>, g2 |-> <<>>]

\* The loop over int_types: the first kind with this size and signedness.
FindType(size, signed) ==
    LET hits == {i \in 1..Len(int_types) :
                    int_types[i].size = size /\ int_types[i].signed = signed}
    IN  IF hits = {} THEN [t |-> "raise", v |-> "ValueError"]
        ELSE [t |-> "type", v |-> int_types[CHOOSE i \in hits : \A j \in hits : i <= j]]

get_type(size, signed, type_name) ==
    IF type_name # None
    THEN LET match == MatchTypeName(type_name)
         IN  IF ~match.ok THEN [t |-> "raise", v |-> "ValueError"]
             ELSE LET nbits == ParseInt(match.g2)
                  IN  IF nbits % 8 # 0 THEN [t |-> "raise", v |-> "ValueError"]
                      ELSE FindType(nbits \div 8, match.g1 = <<>>)
    ELSE FindType(size, signed)

\* Type names tried by get_type(type_name=...).
TypeNames ==
    { <<"i", "n", "t", "8">>, <<"u", "i", "n", "t", "3", "2">>, <<"i", "n", "t", "1", "6">>,
      <<"u", "u", "i", "n", "t", "6", "4">>, <<"i", "n", "t", "1", "2">>, <<"i", "n", "t">>,
      <<"f", "o", "o">>, <<"i", "n", "t", "6", "4", "x">>, <<"i", "n", "t", "0">>,
      <<"u", "i", "n", "t", "1", "2", "8">>, <<>> }

\* ------------------------------------------- gravitum.decompiler_builtins.ida
BIG_ENDIAN == "big"
LITTLE_ENDIAN == "little"

VARIABLES
    BYTE_ORDER,   \* the module global: the active byte order
    op,           \* the caller's position: "idle" between calls, else the call that just completed
    args,         \* that call's arguments
    ret,          \* what it returned or raised: [t, v]
    frame         \* the call a second thread is in the middle of: its position and locals

vars == <<BYTE_ORDER, op, args, ret, frame>>

Returned(v) == [t |-> "Integer", v |-> v]
ReturnedInt(i) == [t |-> "int", v |-> i]

Min(a, b) == IF a < b THEN a ELSE b
Max(a, b) == IF a > b THEN a ELSE b

\* data[start:stop] of Python: negative indices count from the end, and
\* both ends are clamped to the sequence.
Slice(data, start, stop) ==
    LET clamp(i) == IF i < 0 THEN Max(i + Len(data), 0) ELSE Min(i, Len(data))
    IN  SubSeq(data, clamp(start) + 1, clamp(stop))

\* The body of _partn with the byte order each of its two reads saw.
partn_with(x, n, t, order1, order2) ==
    LET size == t.size
        data == to_bytes(x, order1)
    IN  from_bytes(t, Slice(data, n * size, (n + 1) * size), order2)

\* _partn with the index clamped to the last whole chunk instead of left to
\* run off the end of the bytes.
_partn_clamped(x, n, t) ==
    partn_with(x, Min(n, Max((x.size \div t.size) - 1, 0)), t, BYTE_ORDER, BYTE_ORDER)

_partn(x, n, t) == partn_with(x, n, t, BYTE_ORDER, BYTE_ORDER)

last_ind(x, part_type) == (x.size \div part_type.size) - 1

\* low_ind and high_ind with the byte order their read saw.
low_ind_with(x, part_type, order) ==
    IF order = BIG_ENDIAN THEN last_ind(x, part_type) ELSE 0

\* low_ind that ignores the byte order.
low_ind_zero(x, part_type) == 0

low_ind(x, part_type) == low_ind_with(x, part_type, BYTE_ORDER)

high_ind(x, part_type) ==
    IF BYTE_ORDER = BIG_ENDIAN THEN 0 ELSE last_ind(x, part_type)

byten(x, n) == _partn(x, n, UInt8)
wordn(x, n) == _partn(x, n, UInt16)
dwordn(x, n) == _partn(x, n, UInt32)
lobyte(x) == byten(x, low_ind(x, UInt8))
loword(x) == wordn(x, low_ind(x, UInt16))
lodword(x) == dwordn(x, low_ind(x, UInt32))
hibyte(x) == byten(x, high_ind(x, UInt8))
hiword(x) == wordn(x, high_ind(x, UInt16))
hidword(x) == dwordn(x, high_ind(x, UInt32))

sbyten(x, n) == _partn(x, n, Int8)
swordn(x, n) == _partn(x, n, Int16)
sdwordn(x, n) == _partn(x, n, Int32)
slobyte(x) == sbyten(x, low_ind(x, Int8))
sloword(x) == swordn(x, low_ind(x, Int16))
slodword(x) == sdwordn(x, low_ind(x, Int32))
shibyte(x) == sbyten(x, high_ind(x, Int8))
shiword(x) == swordn(x, high_ind(x, Int16))
shidword(x) == sdwordn(x, high_ind(x, Int32))

pair(high, low) ==
    LET size == high.size
        signed == high.signed
        int_type == get_type(size * 2, signed, None)
    IN  IF int_type.t = "raise" THEN int_type
        ELSE Returned(Or(Shl(Conv(int_type.v, high), size * 8), Conv(type_of(high), low)))

rol(value, count) ==
    LET data_type == type_of(value)
        nbits == value.size * 8
    IN  IF count > 0
        THEN LET c == count % nbits
                 high0 == Shr(value, nbits - c)
                 high == IF value.signed
                         THEN And(high0, Not(Shl(MinusOne(data_type), c)))
                         ELSE high0
             IN  Or(Shl(value, c), high)
        ELSE LET c == (-count) % nbits
                 low == Shl(value, nbits - c)
             IN  Or(Shr(value, c), low)

rol1(value, count) == Conv(UInt8, rol(value, count))
rol2(value, count) == Conv(UInt16, rol(value, count))
rol4(value, count) == Conv(UInt32, rol(value, count))
rol8(value, count) == Conv(UInt64, rol(value, count))
ror1(value, count) == Conv(UInt8, rol(value, -count))
ror2(value, count) == Conv(UInt16, rol(value, -count))
ror4(value, count) == Conv(UInt32, rol(value, -count))
ror8(value, count) == Conv(UInt64, rol(value, -count))

\* int(v & 1)
LowBit(v) == v.bits[1]

mkcshl(value, count) ==
    LET nbits == value.size * 8
        c == count % nbits
    IN  LowBit(Shr(value, nbits - c))

mkcshr(value, count) == LowBit(Shr(value, count - 1))

sets(x) ==
    LET data_type == get_type(x.size, TRUE, None).v
    IN  IF Lt(Conv(data_type, x), Zero(data_type)) THEN 1 ELSE 0

\* ^ and & on the flags 0 and 1.
Xor(a, b) == (a + b) % 2
BitAnd(a, b) == a * b

ofsub(x, y) ==
    IF x.size < y.size
    THEN LET x2 == x
             sx == sets(x2)
         IN  BitAnd(Xor(sx, sets(y)), Xor(sx, sets(Sub(x2, y))))
    ELSE LET y2 == y
             sx == sets(x)
         IN  BitAnd(Xor(sx, sets(y2)), Xor(sx, sets(Sub(x, y2))))

ofadd(x, y) ==
    IF x.size < y.size
    THEN LET x2 == x
             sx == sets(x2)
         IN  BitAnd(Xor(Xor(1, sx), sets(y)), Xor(sx, sets(Add(x2, y))))
    ELSE LET y2 == y
             sx == sets(x)
         IN  BitAnd(Xor(Xor(1, sx), sets(y2)), Xor(sx, sets(Add(x, y2))))

cfsub(x, y) ==
    LET size == Max(x.size, y.size)
        data_type == get_type(size, FALSE, None).v
    IN  IF Lt(Conv(data_type, x), Conv(data_type, y)) THEN 1 ELSE 0

cfadd(x, y) ==
    LET size == Max(x.size, y.size)
        data_type == get_type(size, FALSE, None).v
    IN  IF Lt(Conv(data_type, Add(x, y)), Conv(data_type, x)) THEN 1 ELSE 0

\* The body of _swap_bytes with the byte order each of its two reads saw.
swap_bytes_with(value, order1, order2) ==
    LET data == to_bytes(value, order1)
    IN  from_bytes(type_of(value), Reverse(data), order2)

\* _swap_bytes that serializes in a fixed order but parses in the active one.
_swap_bytes_mixed(value) == swap_bytes_with(value, LITTLE_ENDIAN, BYTE_ORDER)

_swap_bytes(value) == swap_bytes_with(value, BYTE_ORDER, BYTE_ORDER)

bswap16(value) == _swap_bytes(value)
bswap32(value) == _swap_bytes(value)
bswap64(value) == _swap_bytes(value)

\* int(x): a Python integer, as sign and magnitude; the magnitude is a bit
\* pattern, least significant bit first, without leading zeros.
RECURSIVE Trim(_)
Trim(bits) ==
    IF bits = <<>> \/ bits[Len(bits)] = 1 THEN bits ELSE Trim(SubSeq(bits, 1, Len(bits) - 1))

int(x) ==
    LET neg == x.signed /\ TopBit(x) = 1
        zeros == [i \in 1..Len(x.bits) |-> 0]
    IN  [neg |-> neg,
         mag |-> Trim(IF neg THEN AddBits(NotBits(x.bits), zeros, 1) ELSE x.bits)]

\* bin(i): the characters "-" (when negative), "0", "b", then the binary
\* digits of the magnitude, most significant first ("0" for zero).
bin(i) ==
    (IF i.neg THEN <<"-">> ELSE <<>>) \o <<"0", "b">> \o
    (IF i.mag = <<>> THEN <<"0">>
     ELSE [k \in 1..Len(i.mag) |-> IF i.mag[Len(i.mag) + 1 - k] = 1 THEN "1" ELSE "0"])

clz(x) == x.size * 8 - Len(Slice(bin(int(x)), 2, Len(bin(int(x)))))

\* ------------------------------------------------------------ operations
NoValue == [t |-> "none", v |-> 0]
Idle == [pc |-> "idle", f |-> "", x |-> <<>>, n |-> 0, data |-> <<>>, reads |-> <<>>]

ByteOrders == {BIG_ENDIAN, LITTLE_ENDIAN}

\* import: BYTE_ORDER = LITTLE_ENDIAN
Init ==
    /\ BYTE_ORDER = LITTLE_ENDIAN
    /\ op = "idle"
    /\ args = <<>>
    /\ ret = NoValue
    /\ frame = Idle

\* A call made with the given arguments returned (or raised) r.  No
\* function of the module assigns BYTE_ORDER.  Calls start from "idle".
Call(f, a, r) ==
    /\ op' = f
    /\ args' = a
    /\ ret' = r
    /\ UNCHANGED <<BYTE_ORDER, frame>>

\* The caller's own assignment ida.BYTE_ORDER = order.
SetByteOrder ==
    \E order \in ByteOrders :
        /\ op = "idle"
        /\ BYTE_ORDER' = order
        /\ op' = "BYTE_ORDER="
        /\ args' = <<order>>
        /\ ret' = NoValue
        /\ UNCHANGED frame

\* The caller is done with the result and moves on to its next statement.
Return ==
    /\ op # "idle"
    /\ frame.pc = "idle"
    /\ op' = "idle"
    /\ args' = <<>>
    /\ ret' = NoValue
    /\ UNCHANGED <<BYTE_ORDER, frame>>

\* _partn that puts the byte order back to the default when it fails.
Call_partn_resets ==
    /\ op = "idle"
    /\ \E x \in Values, n \in (0..MaxIndex) \cup {99}, t \in Kinds :
           /\ op' = "_partn"
           /\ args' = <<x, n, t>>
           /\ ret' = _partn(x, n, t)
           /\ BYTE_ORDER' = IF _partn(x, n, t).t = "raise" THEN LITTLE_ENDIAN ELSE BYTE_ORDER
           /\ UNCHANGED frame

Call_partn ==
    /\ op = "idle"
    /\ \E x \in Values, n \in (0..MaxIndex) \cup {99}, t \in Kinds :
           Call("_partn", <<x, n, t>>, _partn(x, n, t))

Call_ind ==
    /\ op = "idle"
    /\ \E x \in Values, t \in Kinds :
           \/ Call("last_ind", <<x, t>>, ReturnedInt(last_ind(x, t)))
           \/ Call("low_ind", <<x, t>>, ReturnedInt(low_ind(x, t)))
           \/ Call("high_ind", <<x, t>>, ReturnedInt(high_ind(x, t)))

Call_low ==
    /\ op = "idle"
    /\ \E x \in Values :
           \/ Call("lobyte", <<x>>, lobyte(x))
           \/ Call("loword", <<x>>, loword(x))
           \/ Call("lodword", <<x>>, lodword(x))
           \/ Call("slobyte", <<x>>, slobyte(x))
           \/ Call("sloword", <<x>>, sloword(x))
           \/ Call("slodword", <<x>>, slodword(x))

Call_high ==
    /\ op = "idle"
    /\ \E x \in Values :
           \/ Call("hibyte", <<x>>, hibyte(x))
           \/ Call("hiword", <<x>>, hiword(x))
           \/ Call("hidword", <<x>>, hidword(x))
           \/ Call("shibyte", <<x>>, shibyte(x))
           \/ Call("shiword", <<x>>, shiword(x))
           \/ Call("shidword", <<x>>, shidword(x))

Call_pair ==
    /\ op = "idle"
    /\ \E high \in Values, low \in Values :
           Call("pair", <<high, low>>, pair(high, low))


\* Rotation counts: a full turn either way.
Counts(value) == (-(value.size * 8))..(value.size * 8)

Call_rol ==
    /\ op = "idle"
    /\ \E value \in Values :
           \E count \in Counts(value) :
               Call("rol", <<value, count>>, Returned(rol(value, count)))

Call_rolN ==
    /\ op = "idle"
    /\ \E value \in Values :
           \E count \in Counts(value) :
               \/ value.size = 1 /\ ~value.signed /\ Call("rol1", <<value, count>>, Returned(rol1(value, count)))
               \/ value.size = 2 /\ ~value.signed /\ Call("rol2", <<value, count>>, Returned(rol2(value, count)))
               \/ value.size = 4 /\ ~value.signed /\ Call("rol4", <<value, count>>, Returned(rol4(value, count)))
               \/ value.size = 8 /\ ~value.signed /\ Call("rol8", <<value, count>>, Returned(rol8(value, count)))
               \/ value.size = 1 /\ ~value.signed /\ Call("ror1", <<value, count>>, Returned(ror1(value, count)))
               \/ value.size = 2 /\ ~value.signed /\ Call("ror2", <<value, count>>, Returned(ror2(value, count)))
               \/ value.size = 4 /\ ~value.signed /\ Call("ror4", <<value, count>>, Returned(ror4(value, count)))
               \/ value.size = 8 /\ ~value.signed /\ Call("ror8", <<value, count>>, Returned(ror8(value, count)))

Call_mkcsh ==
    /\ op = "idle"
    /\ \E value \in Values :
           \E count \in 1..(value.size * 8) :
               \/ Call("mkcshl", <<value, count>>, ReturnedInt(mkcshl(value, count)))
               \/ Call("mkcshr", <<value, count>>, ReturnedInt(mkcshr(value, count)))

Call_sets ==
    /\ op = "idle"
    /\ \E x \in Values : Call("sets", <<x>>, ReturnedInt(sets(x)))

Call_ofsub ==
    /\ op = "idle"
    /\ \E x \in Values, y \in Values : Call("ofsub", <<x, y>>, ReturnedInt(ofsub(x, y)))

Call_ofadd ==
    /\ op = "idle"
    /\ \E x \in Values, y \in Values : Call("ofadd", <<x, y>>, ReturnedInt(ofadd(x, y)))

Call_cfsub ==
    /\ op = "idle"
    /\ \E x \in Values, y \in Values : Call("cfsub", <<x, y>>, ReturnedInt(cfsub(x, y)))

Call_cfadd ==
    /\ op = "idle"
    /\ \E x \in Values, y \in Values : Call("cfadd", <<x, y>>, ReturnedInt(cfadd(x, y)))

Call_bswap ==
    /\ op = "idle"
    /\ \E value \in Values :
           \/ type_of(value) = UInt16 /\ Call("bswap16", <<value>>, bswap16(value))
           \/ type_of(value) = UInt32 /\ Call("bswap32", <<value>>, bswap32(value))
           \/ type_of(value) = UInt64 /\ Call("bswap64", <<value>>, bswap64(value))

Call_clz ==
    /\ op = "idle"
    /\ \E x \in Values : Call("clz", <<x>>, ReturnedInt(clz(x)))

Call_get_type ==
    /\ op = "idle"
    /\ \/ \E size \in 0..MaxSize, signed \in BOOLEAN :
              Call("get_type", <<size, signed, None>>, get_type(size, signed, None))
       \/ \E type_name \in TypeNames :
              Call("get_type", <<0, FALSE, type_name>>, get_type(0, FALSE, type_name))

\* One thread calling into the module and assigning BYTE_ORDER between calls.
Next ==
    \/ SetByteOrder
    \/ Return
    \/ Call_partn
    \/ Call_ind
    \/ Call_low
    \/ Call_high
    \/ Call_pair
    \/ Call_rol
    \/ Call_rolN
    \/ Call_mkcsh
    \/ Call_sets
    \/ Call_ofsub
    \/ Call_ofadd
    \/ Call_cfsub
    \/ Call_cfadd
    \/ Call_bswap
    \/ Call_clz
    \/ Call_get_type

Spec == Init /\ [][Next]_vars

\* ------------------------------------------------- two threads, one global
\* A second thread runs lobyte(x) or _swap_bytes(value) one read of
\* BYTE_ORDER at a time while the first thread assigns BYTE_ORDER.
\* frame.reads lists the byte order each read saw.
Race_begin ==
    /\ frame.pc = "idle"
    /\ \E x \in Values :
           \/ frame' = [Idle EXCEPT !.pc = "low_ind", !.f = "lobyte", !.x = x]
           \/ /\ ~x.signed /\ x.size > 1
              /\ frame' = [Idle EXCEPT !.pc = "swap_to_bytes", !.f = "_swap_bytes", !.x = x]
    /\ UNCHANGED <<BYTE_ORDER, op, args, ret>>

\* lobyte that asks for high_ind.
Race_low_ind_high ==
    /\ frame.pc = "low_ind"
    /\ frame' = [frame EXCEPT !.pc = "to_bytes",
                              !.n = high_ind(frame.x, UInt8),
                              !.reads = Append(@, BYTE_ORDER)]
    /\ UNCHANGED <<BYTE_ORDER, op, args, ret>>

\* lobyte: low_ind(x, UInt8) reads BYTE_ORDER.
Race_low_ind ==
    /\ frame.pc = "low_ind"
    /\ frame' = [frame EXCEPT !.pc = "to_bytes",
                              !.n = low_ind(frame.x, UInt8),
                              !.reads = Append(@, BYTE_ORDER)]
    /\ UNCHANGED <<BYTE_ORDER, op, args, ret>>

\* _partn: data = x.to_bytes(byteorder=BYTE_ORDER)
Race_to_bytes ==
    /\ frame.pc = "to_bytes"
    /\ frame' = [frame EXCEPT !.pc = "from_bytes",
                              !.data = to_bytes(frame.x, BYTE_ORDER),
                              !.reads = Append(@, BYTE_ORDER)]
    /\ UNCHANGED <<BYTE_ORDER, op, args, ret>>

\* _partn: return t.from_bytes(data[n * size : (n + 1) * size], byteorder=BYTE_ORDER)
Race_from_bytes ==
    /\ frame.pc = "from_bytes"
    /\ LET size == UInt8.size
       IN  ret' = from_bytes(UInt8, Slice(frame.data, frame.n * size, (frame.n + 1) * size),
                             BYTE_ORDER)
    /\ op' = frame.f
    /\ args' = <<frame.x>>
    /\ frame' = [frame EXCEPT !.pc = "done", !.reads = Append(@, BYTE_ORDER)]
    /\ UNCHANGED BYTE_ORDER

\* _swap_bytes: data = value.to_bytes(byteorder=BYTE_ORDER)
Race_swap_to_bytes ==
    /\ frame.pc = "swap_to_bytes"
    /\ frame' = [frame EXCEPT !.pc = "swap_from_bytes",
                              !.data = to_bytes(frame.x, BYTE_ORDER),
                              !.reads = Append(@, BYTE_ORDER)]
    /\ UNCHANGED <<BYTE_ORDER, op, args, ret>>

\* _swap_bytes: return value.from_bytes(data[::-1], byteorder=BYTE_ORDER)
Race_swap_from_bytes ==
    /\ frame.pc = "swap_from_bytes"
    /\ ret' = from_bytes(type_of(frame.x), Reverse(frame.data), BYTE_ORDER)
    /\ op' = frame.f
    /\ args' = <<frame.x>>
    /\ frame' = [frame EXCEPT !.pc = "done", !.reads = Append(@, BYTE_ORDER)]
    /\ UNCHANGED BYTE_ORDER

\* The second thread is done with the result.
Race_return ==
    /\ frame.pc = "done"
    /\ frame' = Idle
    /\ op' = "idle"
    /\ args' = <<>>
    /\ ret' = NoValue
    /\ UNCHANGED BYTE_ORDER

\* The first thread assigns BYTE_ORDER, at any moment.
Race_set_byte_order ==
    /\ \E order \in ByteOrders :
           /\ order # BYTE_ORDER
           /\ BYTE_ORDER' = order
    /\ UNCHANGED <<op, args, ret, frame>>

RaceNext ==
    \/ Race_begin
    \/ Race_low_ind
    \/ Race_to_bytes
    \/ Race_from_bytes
    \/ Race_swap_to_bytes
    \/ Race_swap_from_bytes
    \/ Race_return
    \/ Race_set_byte_order

RaceSpec == Init /\ [][RaceNext]_vars

\* ------------------------------------------------------------ properties
\* Reference arithmetic for the flag claims, independent of the Integer
\* operators: exact sums and differences on patterns one bit wider.
CommonWidth(x, y) == Max(x.size, y.size) * BitsPerByte

\* a + b >= 2^Len(a), for unsigned patterns of equal length.
CarryOut(a, b) == AddBits(a \o <<0>>, b \o <<0>>, 0)[Len(a) + 1] = 1

\* The signed pattern a extended by one more sign bit.
Widen(a) == a \o <<a[Len(a)]>>

\* A widened result lies outside the signed range of the original width:
\* its two top bits differ.
OutOfRange(r) == r[Len(r)] # r[Len(r) - 1]

ExactSumOverflows(a, b) == OutOfRange(AddBits(Widen(a), Widen(b), 0))
ExactDiffOverflows(a, b) == OutOfRange(AddBits(Widen(a), NotBits(Widen(b)), 1))

Flag(b) == IF b THEN 1 ELSE 0

\* C1: cfadd(x, y) is 1 exactly when X + Y >= 2^W and cfsub(x, y) is 1
\* exactly when X < Y, X and Y being x and y converted to the unsigned kind
\* of the common width W; for operands of any two kinds.
C1_CarryBorrowExact ==
    op \in {"cfadd", "cfsub"} =>
        LET w == CommonWidth(args[1], args[2])
            X == Ext(args[1], w)
            Y == Ext(args[2], w)
        IN  /\ op = "cfadd" => ret.v = Flag(CarryOut(X, Y))
            /\ op = "cfsub" => ret.v = Flag(LtFrom(X, Y, w))

\* C2: ofadd(x, y) is 1 exactly when the exact sum of x and y, taken as
\* signed values at the common width, leaves the signed range of that
\* width, and ofsub(x, y) exactly when the exact difference does.
C2_OverflowExact ==
    op \in {"ofadd", "ofsub"} =>
        LET w == CommonWidth(args[1], args[2])
            X == Ext(args[1], w)
            Y == Ext(args[2], w)
        IN  /\ op = "ofadd" => ret.v = Flag(ExactSumOverflows(X, Y))
            /\ op = "ofsub" => ret.v = Flag(ExactDiffOverflows(X, Y))

\* C3: rotating left by n, 0 <= n < width, and then by -n gives the
\* original value back, for every kind.
C3_RotateInverse ==
    (op = "rol" /\ 0 <= args[2] /\ args[2] < args[1].size * BitsPerByte) =>
        rol(ret.v, -args[2]) = args[1]

\* C4: for high of 8, 16 or 32 bits, pair(high, low) has twice high's
\* width and high's signedness; its upper half is high's bit pattern and
\* its lower half the low-order width(high) bits of low.
\* pair(UInt32(1), UInt32(0xFFFFFFFF)) == UInt64(0x1FFFFFFFF).
C4_PairHalves ==
    (op = "pair" /\ args[1].size <= 4) =>
        /\ ret.t = "Integer"
        /\ ret.v.size = 2 * args[1].size
        /\ ret.v.signed = args[1].signed
        /\ ret.v.bits = Ext(args[2], Len(args[1].bits)) \o args[1].bits

\* A chunk that _partn raised on.
Raised == ret.t = "raise"

\* C5: _partn(x, n, part kind) raises, and returns no value, exactly when
\* (n + 1) * size(part kind) exceeds x's byte length, under either byte
\* order; it returns a value of the part kind only when the whole chunk
\* lies inside x's bytes.
C5_PartnOutOfRange ==
    op = "_partn" =>
        LET x == args[1]
            n == args[2]
            t == args[3]
        IN  /\ Raised <=> (n + 1) * t.size > x.size
            /\ ~Raised => ret.t = "Integer" /\ type_of(ret.v) = t

\* C5 witness: under big-endian, a chunk that starts inside x and ends
\* beyond it (a short, non-empty slice) has raised.
C5_ShortSliceRaised ==
    /\ op = "_partn"
    /\ BYTE_ORDER = BIG_ENDIAN
    /\ Raised
    /\ args[2] * args[3].size < args[1].size

LowestByte(x) == ByteAt(x.bits, 0)
HighestByte(x) == ByteAt(x.bits, x.size - 1)

\* C6 as stated: lobyte of a multi-byte x is the numerically lowest-order
\* byte under little-endian and the numerically highest-order byte once
\* the byte order is big-endian.
C6_LobyteFollowsByteOrder ==
    (op = "lobyte" /\ args[1].size > 1) =>
        /\ ret.t = "Integer"
        /\ BYTE_ORDER = LITTLE_ENDIAN => LowestByte(ret.v) = LowestByte(args[1])
        /\ BYTE_ORDER = BIG_ENDIAN => LowestByte(ret.v) = HighestByte(args[1])

\* C6 amended: lobyte of a multi-byte x is the UInt8 holding the
\* numerically lowest-order byte of x (x mod 256) under little-endian and
\* under big-endian alike.
C6_LobyteIsLowestByte ==
    (op = "lobyte" /\ args[1].size > 1) =>
        /\ ret.t = "Integer"
        /\ type_of(ret.v) = UInt8
        /\ LowestByte(ret.v) = LowestByte(args[1])

\* C6 witness: lobyte has returned under big-endian for a multi-byte x
\* whose lowest and highest bytes differ.
C6_LobyteUnderBigEndian ==
    /\ op = "lobyte"
    /\ BYTE_ORDER = BIG_ENDIAN
    /\ args[1].size > 1
    /\ LowestByte(args[1]) # HighestByte(args[1])

\* 0x01020304 and 0x04030201 as UInt32.
X01020304 == from_bytes(UInt32, <<1, 2, 3, 4>>, BIG_ENDIAN).v
X04030201 == from_bytes(UInt32, <<4, 3, 2, 1>>, BIG_ENDIAN).v

\* C7: with the byte order fixed during the call, bswap16/32/64(v)
\* returns the value of v's kind whose i-th byte by significance is v's
\* (size-1-i)-th; the result is the same under both byte orders, swapping
\* twice gives v back, and bswap32(0x01020304) == 0x04030201.
C7_BswapReverses ==
    op \in {"bswap16", "bswap32", "bswap64"} =>
        LET v == args[1]
        IN  /\ ret.t = "Integer"
            /\ type_of(ret.v) = type_of(v)
            /\ \A i \in 0..(v.size - 1) : ByteAt(ret.v.bits, i) = ByteAt(v.bits, v.size - 1 - i)
            /\ \A order \in ByteOrders : ret = swap_bytes_with(v, order, order)
            /\ _swap_bytes(ret.v) = Returned(v)
            /\ v = X01020304 => ret.v = X04030201

\* C7 witness: bswap32(0x01020304) has returned under big-endian.
C7_Bswap32UnderBigEndian ==
    /\ op = "bswap32"
    /\ BYTE_ORDER = BIG_ENDIAN
    /\ args[1] = X01020304
    /\ ret.v = X04030201

\* C8: no call into the module changes the byte order, whether it returns
\* or raises; only the caller's own assignment does.
C8_ByteOrderOnlyByAssignment ==
    [][op' # "BYTE_ORDER=" => BYTE_ORDER' = BYTE_ORDER]_vars

\* C8 witness: a call (pair or get_type) has raised while the byte order
\* was big-endian.
C8_FailedCallUnderBigEndian ==
    /\ op \in {"pair", "get_type"}
    /\ Raised
    /\ BYTE_ORDER = BIG_ENDIAN

\* Number of zero bits at the most significant end of a pattern.
LeadingZeros(bits) == Len(bits) - Len(Trim(bits))

\* C10: for nonzero x of any kind, clz(x) is the number of leading zero
\* bits of x's two's-complement pattern at its own width: between 0 and
\* width - 1, and 0 when the top bit is set.
C10_ClzCountsLeadingZeros ==
    (op = "clz" /\ args[1] # Zero(type_of(args[1]))) =>
        /\ ret.v = LeadingZeros(args[1].bits)
        /\ 0 <= ret.v /\ ret.v <= args[1].size * BitsPerByte - 1
        /\ TopBit(args[1]) = 1 => ret.v = 0

\* lobyte(x) with the byte order held at `order` for the whole call.
lobyte_fixed(x, order) == partn_with(x, low_ind_with(x, UInt8, order), UInt8, order, order)

\* C9: lobyte reads the byte order three times (low_ind, to_bytes,
\* from_bytes) and _swap_bytes twice, each read seeing the value of that
\* moment.  With equal reads the call returns what it returns under that
\* byte order held fixed; when the reads of low_ind and to_bytes differ,
\* lobyte returns x's highest-order byte and _swap_bytes returns its
\* argument unreversed.
C9_UnsnapshottedReads ==
    frame.pc = "done" =>
        LET x == frame.x
            r == frame.reads
        IN  /\ frame.f = "lobyte" =>
                /\ Len(r) = 3
                /\ ret.t = "Integer"
                /\ LowestByte(ret.v) = IF r[1] = r[2] THEN LowestByte(x) ELSE HighestByte(x)
                /\ r[1] = r[2] => ret = lobyte_fixed(x, r[1])
            /\ frame.f = "_swap_bytes" =>
                /\ Len(r) = 2
                /\ ret.t = "Integer"
                /\ ret = IF r[1] = r[2] THEN swap_bytes_with(x, r[1], r[1]) ELSE Returned(x)

\* C9 witness: a lobyte call on a multi-byte x, interleaved with an
\* assignment to BYTE_ORDER, has returned a byte that lobyte returns under
\* neither byte order held fixed.
C9_LobyteReturnsNeither ==
    /\ frame.pc = "done"
    /\ frame.f = "lobyte"
    /\ frame.x.size > 1
    /\ \E i, j \in 1..Len(frame.reads) : frame.reads[i] # frame.reads[j]
    /\ \A order \in ByteOrders : ret # lobyte_fixed(frame.x, order)

\* The other interleaving C9 names: _swap_bytes has returned a value whose
\* bytes are not all equal unreversed.
C9_SwapReturnsUnreversed ==
    /\ frame.pc = "done"
    /\ frame.f = "_swap_bytes"
    /\ ret = Returned(frame.x)
    /\ \A order \in ByteOrders : ret # swap_bytes_with(frame.x, order, order)

====
